---- MODULE Spec2Model ----
(***************************************************************************)
(* FinTrack expense dashboard (src/public/service-worker.js, App component)*)
(* as a state machine: the record store `expenses`, its persisted copy,    *)
(* the add / delete / import handlers and the derived analytics.           *)
(*                                                                         *)
(* JavaScript values are tagged records [k |-> kind, v |-> payload]; an    *)
(* expense record is a JavaScript object, the store a JavaScript array.    *)
(***************************************************************************)
EXTENDS Integers, Sequences, FiniteSets, TLC

(* ------------------------------ bounds -------------------------------- *)
\* Longest store explored.
MaxLen == 3
\* Date.now() runs over 1..MaxNow (milliseconds after the page was opened).
MaxNow == 2
\* Math.floor(Math.random() * 1000) is explored over 0..MaxJitter.
MaxJitter == 1
\* File reads in flight at once.
MaxReading == 1
\* File reads in flight at once where imports overlap (OverlapSpec).
MaxOverlap == 2
\* Requests the service worker has sent to the network and not yet answered.
MaxFetching == 2
\* Significand width of a Number, scaled down from the 53 bits of a double:
\* sums of magnitude up to 2^MantBits are exact, larger ones are rounded.
MantBits == 3

(* ------------------------- JavaScript values --------------------------- *)
Undefined == [k |-> "undefined", v |-> 0]
Null == [k |-> "null", v |-> 0]
NaN == [k |-> "nan", v |-> 0]
Num(n) == [k |-> "number", v |-> n]
Inf(s) == [k |-> "inf", v |-> s]
Str(s) == [k |-> "string", v |-> s]
Arr(s) == [k |-> "array", v |-> s]
Obj(f) == [k |-> "object", v |-> f]

IsNumeric(x) == x.k \in {"number", "nan", "inf"}
IsArray(x) == x.k = "array"

\* ToBoolean, as used by !x, x || y and filter(Boolean).
Truthy(x) ==
  CASE x.k \in {"undefined", "null", "nan"} -> FALSE
    [] x.k = "number" -> x.v # 0
    [] x.k = "string" -> x.v # ""
    [] OTHER -> TRUE

\* a || b
Or(a, b) == IF Truthy(a) THEN a ELSE b

\* Property read r.f: undefined when r has no such own property.
Get(r, f) ==
  IF r.k = "object" /\ f \in DOMAIN r.v THEN r.v[f] ELSE Undefined

\* r.f throws a TypeError when r is null or undefined.
ReadThrows(r) == r.k \in {"null", "undefined"}

(* ------------------------------ numbers -------------------------------- *)
Pow2(n) == 2 ^ n

AbsInt(n) == IF n < 0 THEN -n ELSE n

\* Spacing of the representable numbers around magnitude a.
RECURSIVE Ulp(_)
Ulp(a) == IF a < Pow2(MantBits) THEN 1 ELSE 2 * Ulp(a \div 2)

\* Round to nearest representable number, ties to even (IEEE 754).
RoundMag(a) ==
  LET u == Ulp(a)
      q == a \div u
      r == a - q * u
  IN  IF 2 * r < u THEN q * u
      ELSE IF 2 * r > u THEN (q + 1) * u
      ELSE IF q % 2 = 0 THEN q * u ELSE (q + 1) * u

Round(n) == IF n < 0 THEN -RoundMag(-n) ELSE RoundMag(n)

\* The decimal literals of the explored inputs.
Decimal ==
  ("0" :> 0) @@ ("1" :> 1) @@ ("-1" :> -1) @@ ("2" :> 2) @@ ("7" :> 7)
  @@ ("8" :> 8)

\* Number(s) for a string s.
StringToNumber(s) ==
  IF s = "" THEN Num(0)
  ELSE IF s \in DOMAIN Decimal THEN Num(Round(Decimal[s]))
  ELSE IF s = "Infinity" THEN Inf(1)
  ELSE IF s = "-Infinity" THEN Inf(-1)
  ELSE NaN

\* Number(x)
ToNumber(x) ==
  CASE IsNumeric(x) -> x
    [] x.k = "null" -> Num(0)
    [] x.k = "undefined" -> NaN
    [] x.k = "string" -> StringToNumber(x.v)
    [] x.k = "object" -> NaN

\* parseFloat(s) for a string s: no number at the start of s gives NaN.
ParseFloat(s) ==
  IF s \in DOMAIN Decimal THEN Num(Round(Decimal[s]))
  ELSE IF s = "Infinity" THEN Inf(1)
  ELSE IF s = "-Infinity" THEN Inf(-1)
  ELSE NaN

\* a + b on numbers (null operands convert to 0, undefined to NaN).
Plus(a, b) ==
  LET x == ToNumber(a)
      y == ToNumber(b)
  IN  CASE x.k = "nan" \/ y.k = "nan" -> NaN
        [] x.k = "inf" /\ y.k = "inf" -> IF x.v = y.v THEN x ELSE NaN
        [] x.k = "inf" -> x
        [] y.k = "inf" -> y
        [] OTHER -> Num(Round(x.v + y.v))

\* Math.abs(x)
MathAbs(x) ==
  CASE x.k = "nan" -> NaN
    [] x.k = "inf" -> Inf(1)
    [] x.k = "number" -> Num(AbsInt(x.v))

\* a > b and a >= b on numbers: false when either side is NaN.
Rank(x) == IF x.k = "inf" THEN x.v ELSE 0
Greater(a, b) ==
  /\ a.k # "nan" /\ b.k # "nan"
  /\ \/ Rank(a) > Rank(b)
     \/ a.k = "number" /\ b.k = "number" /\ a.v > b.v
GreaterEq(a, b) ==
  /\ a.k # "nan" /\ b.k # "nan"
  /\ \/ Greater(a, b)
     \/ a = b

(* -------------------------------- JSON --------------------------------- *)
\* A text is [k |-> "json", v |-> x]: the JSON serialisation of the value x,
\* [k |-> "text", v |-> s]: a string s that is not JSON, or
\* [k |-> "lines", v |-> rows]: CSV text, see splitLines below.
JsonText(x) == [k |-> "json", v |-> x]
PlainText(s) == [k |-> "text", v |-> s]

\* What JSON.stringify writes for a value: NaN and the infinities become
\* null, a property whose value is undefined is left out.
RECURSIVE Serialised(_)
Serialised(x) ==
  CASE x.k \in {"nan", "inf", "undefined"} -> Null
    [] x.k = "array" -> Arr([i \in DOMAIN x.v |-> Serialised(x.v[i])])
    [] x.k = "object" ->
         Obj([f \in {g \in DOMAIN x.v : x.v[g].k # "undefined"} |->
                Serialised(x.v[f])])
    [] OTHER -> x

\* JSON.stringify(x)
JSONstringify(x) == JsonText(Serialised(x))

\* JSON.parse(t) throws a SyntaxError unless t is JSON text.
ParseThrows(t) == t.k # "json"
JSONparse(t) == t.v

(* ------------------------------- dates --------------------------------- *)
\* The date strings of the explored inputs that new Date(s) can parse, with
\* their month key and their day number; any other string is an Invalid Date.
\* The dates lie inside their month, where getMonth() (local time) agrees
\* with the month written whatever the time zone.
DateTable ==
  ("2024-01-05" :> [month |-> "2024-01", day |-> 5])
  @@ ("2024-01-20" :> [month |-> "2024-01", day |-> 20])
  @@ ("2024-02-14" :> [month |-> "2024-02", day |-> 45])
  @@ ("2024-03-10" :> [month |-> "2024-03", day |-> 70])

\* new Date().toISOString().slice(0, 10): the day the page is open.
Today == "2024-03-10"

\* isNaN(new Date(x))
InvalidDate(x) == ~(x.k = "string" /\ x.v \in DOMAIN DateTable)

\* monthKey(dateStr)
monthKey(x) == IF InvalidDate(x) THEN "Unknown" ELSE DateTable[x.v].month

(* ------------------------------- state --------------------------------- *)
VARIABLES
  expenses,   \* useState: the record store
  storage,    \* localStorage["ft_expenses_v2"]: Null when missing, else a text
  budget,     \* useState: the budget threshold
  now,        \* Date.now()
  reading,    \* FileReader reads started and not yet loaded
  last,       \* the handler (open, add, delete, file input, import, export)
              \* that ran last: its name, its input and the alert it raised
  filterCategory,   \* useState: the category shown, or "All"
  filterFrom,       \* useState: the first day shown, or ""
  filterTo,         \* useState: the last day shown, or ""
  sortBy,           \* useState: the order of the list
  exported,   \* what the export helpers did last: whether downloadPDF was
              \* called, and the file that was saved
  phase,      \* service worker: where it is in its lifecycle
  caches,     \* service worker: CacheStorage, cache name -> entries
  deleting,   \* service worker: caches.delete calls of activate not yet done
  fetching,   \* service worker: requests waiting for the network
  answer      \* service worker: the response of the last fetch event

\* The state of the App's controls and exports, and of the service worker.
view == <<filterCategory, filterFrom, filterTo, sortBy, exported>>
worker == <<phase, caches, deleting, fetching, answer>>

vars == <<expenses, storage, budget, now, reading, last, view, worker>>

CATEGORY_META ==
  {"Food & Drink", "Shopping", "Transportation", "Bills", "Entertainment",
   "Other"}

NoAlert == ""
Ran(op, arg, alert) == [op |-> op, arg |-> arg, alert |-> alert]

\* The App renders only while the store is an array: [...expenses] and
\* expenses.reduce throw on anything else.
Mounted == IsArray(expenses)

(* ------------------------------ startup -------------------------------- *)
\* Values found under "ft_expenses_v2" when the page opens.
InitialStorage ==
  {Null, PlainText(""), PlainText("{oops"), JsonText(Arr(<<>>)),
   JsonText(Obj([id |-> Num(1)])), JsonText(Null)}

\* A string is truthy unless empty; getItem gives null for a missing key.
RawTruthy(raw) == raw.k = "json" \/ (raw.k = "text" /\ raw.v # "")

\* The initializer of the expenses state.
LoadExpenses(raw) ==
  IF ~RawTruthy(raw) THEN Arr(<<>>)
  ELSE IF ParseThrows(raw) THEN Arr(<<>>)
  ELSE JSONparse(raw)

\* Values found under "ft_budget_v2" when the page opens.
InitialBudget == {Null, Str("-1")}

\* The initializer of the budget state.
LoadBudget(raw) == ToNumber(Or(raw, Num(0)))

\* The persist effect runs after a render that committed.
Persisted(store, old) == IF IsArray(store) THEN JSONstringify(store) ELSE old

\* The controls as useState leaves them when the page opens; no export has
\* run.
NoFile == [kind |-> "none", lines |-> <<>>]
ControlsOpen ==
  /\ filterCategory = "All"
  /\ filterFrom = ""
  /\ filterTo = ""
  /\ sortBy = "newest"
  /\ exported = [pdf |-> FALSE, file |-> NoFile]

\* The service worker script has been fetched and parsed, no event has been
\* dispatched to it; `stored` is what CacheStorage holds of earlier versions.
CACHE_NAME == "fintrack-cache-v1"
NoAnswer == [request |-> "", network |-> "unused", from |-> "none"]
WorkerParsed(stored) ==
  /\ phase = "parsed"
  /\ caches = stored
  /\ deleting = {}
  /\ fetching = {}
  /\ answer = NoAnswer

\* CacheStorage of an origin that never had a service worker.
NoCaches == <<>>

Init ==
  /\ \E raw \in InitialStorage :
       /\ expenses = LoadExpenses(raw)
       /\ storage = Persisted(LoadExpenses(raw), raw)
  /\ \E raw \in InitialBudget : budget = LoadBudget(raw)
  /\ now = 1
  /\ reading = <<>>
  /\ last = Ran("open", Undefined, NoAlert)
  /\ ControlsOpen
  /\ WorkerParsed(NoCaches)

(* ------------------------------ handlers ------------------------------- *)
\* setExpenses(f) followed by the persist effect of the next render.
SetExpenses(store) ==
  /\ expenses' = Arr(store)
  /\ storage' = JSONstringify(Arr(store))

\* Contents of the add-expense form at submit; the amount and date inputs
\* are type="number" and type="date".
Forms ==
  {[reason |-> "", amount |-> "1", date |-> "2024-01-05",
    category |-> "Food & Drink"],
   [reason |-> "Coffee", amount |-> "", date |-> "2024-01-05",
    category |-> "Food & Drink"],
   [reason |-> "Coffee", amount |-> "1", date |-> "",
    category |-> "Food & Drink"],
   [reason |-> "Rent", amount |-> "8", date |-> "2024-01-05",
    category |-> "Bills"],
   [reason |-> "Coffee", amount |-> "1", date |-> "2024-01-20",
    category |-> "Food & Drink"]}

\* Mutant of FormIncomplete: the date is not required.
FormIncompleteNoDate(f) ==
  ~Truthy(Str(f.reason)) \/ ~Truthy(Str(f.amount))

FormIncomplete(f) ==
  ~Truthy(Str(f.reason)) \/ ~Truthy(Str(f.amount)) \/ ~Truthy(Str(f.date))

NewExpense(f, t) ==
  Obj([id |-> Num(t), reason |-> Str(f.reason),
       amount |-> ParseFloat(f.amount), date |-> Str(f.date),
       category |-> Str(f.category)])

addExpense ==
  /\ Mounted
  /\ \E f \in Forms :
       IF FormIncomplete(f)
       THEN /\ last' = Ran("addExpense", f,
                           "Please fill reason, amount and date")
            /\ UNCHANGED <<expenses, storage>>
       ELSE /\ Len(expenses.v) < MaxLen
            /\ SetExpenses(Append(expenses.v, NewExpense(f, now)))
            /\ last' = Ran("addExpense", f, NoAlert)
  /\ UNCHANGED <<budget, now, reading, view, worker>>

\* Mutant of Remove: e.id != id, the comparison that converts a numeric
\* string to its number.
LooseEqual(a, b) ==
  \/ a = b
  \/ /\ {a.k, b.k} = {"number", "string"}
     /\ ToNumber(a).k = "number"
     /\ ToNumber(a) = ToNumber(b)
RemoveLoose(s, id) == SelectSeq(s, LAMBDA e : ~LooseEqual(Get(e, "id"), id))

\* s.filter((e) => e.id !== id)
Remove(s, id) == SelectSeq(s, LAMBDA e : Get(e, "id") # id)

\* An id no record carries.
AbsentId == Num(0)

deleteExpense ==
  /\ Mounted
  /\ \E id \in {Get(expenses.v[i], "id") : i \in DOMAIN expenses.v}
                 \cup {AbsentId},
        confirmed \in BOOLEAN :
       /\ last' = Ran("deleteExpense", id, NoAlert)
       /\ IF confirmed
          THEN SetExpenses(Remove(expenses.v, id))
          ELSE UNCHANGED <<expenses, storage>>
  /\ UNCHANGED <<budget, now, reading, view, worker>>

\* onChange of the budget input (type="number"): Number(value || 0).
BudgetInputs == {"", "2"}

setBudget ==
  /\ Mounted
  /\ \E s \in BudgetInputs : budget' = ToNumber(Or(Str(s), Num(0)))
  /\ UNCHANGED <<expenses, storage, now, reading, last, view, worker>>

\* Time passes between two handlers.
Tick ==
  /\ now < MaxNow
  /\ now' = now + 1
  /\ UNCHANGED <<expenses, storage, budget, reading, last, view, worker>>

(* ------------------------------- import -------------------------------- *)
\* id: r.id || Date.now() + Math.floor(Math.random() * 1000), and the other
\* defaults of the `cleaned` map; t is Date.now(), j the random offset.
Cleaned(r, t, j) ==
  Obj([id |-> Or(Get(r, "id"), Num(t + j)),
       reason |-> Or(Get(r, "reason"), Str("Imported")),
       amount |-> Or(ToNumber(Get(r, "amount")), Num(0)),
       date |-> Or(Get(r, "date"), Str(Today)),
       category |-> Or(Get(r, "category"), Str("Other"))])

\* Mutant of CleanedAll: elements without an id are skipped.
CleanedAllWithId(data, t, js) ==
  LET kept == SelectSeq(data, LAMBDA r : Truthy(Get(r, "id")))
  IN  [i \in DOMAIN kept |-> Cleaned(kept[i], t, js[i])]

\* data.map(...) with one random offset per element.
CleanedAll(data, t, js) == [i \in DOMAIN data |-> Cleaned(data[i], t, js[i])]

Jitters(n) == [1..n -> 0..MaxJitter]

\* Mutant of AppendAll: setExpenses(cleaned), the store at the time the
\* read completes is dropped.
ReplaceAll(s, cleaned) == cleaned

\* setExpenses((s) => [...s, ...cleaned]): s is the store at the time the
\* update runs.
AppendAll(s, cleaned) == s \o cleaned

\* The JSON files offered to the file input.
RefundRecord ==
  Obj([id |-> Num(1), reason |-> Str("Refund"), amount |-> Num(-1),
       date |-> Str("someday"), category |-> Str("Shopping")])
JsonFiles ==
  {JsonText(Arr(<<>>)),
   JsonText(Arr(<<RefundRecord>>)),
   JsonText(Arr(<<Obj([amount |-> Str("abc"), category |-> Str("Groceries")]),
                  Obj([id |-> Str("b2"), reason |-> Str(""),
                       amount |-> Str("Infinity")])>>)),
   JsonText(Arr(<<RefundRecord, Null>>)),
   JsonText(RefundRecord),
   PlainText("{oops")}

\* fr.onload of handleImportJSON; the try block throws on text that is not
\* JSON, on a value that is not an array and on reading r.id of null.
ImportThrows(text) ==
  \/ ParseThrows(text)
  \/ ~IsArray(JSONparse(text))
  \/ \E i \in DOMAIN JSONparse(text).v : ReadThrows(JSONparse(text).v[i])

onloadJSON(text) ==
  IF ImportThrows(text)
  THEN /\ last' = Ran("importJSON", text, "Invalid JSON file.")
       /\ UNCHANGED <<expenses, storage>>
  ELSE LET data == JSONparse(text).v
       IN  /\ Len(expenses.v) + Len(data) <= MaxLen
           /\ \E js \in Jitters(Len(data)) :
                SetExpenses(AppendAll(expenses.v, CleanedAll(data, now, js)))
           /\ last' = Ran("importJSON", text, "Imported successfully")

\* CSV text is kept as txt.split(/\r?\n/) gives it, each line as
\* line.split(",") gives it; the empty line is the one empty piece.
CsvText(rows) == [k |-> "lines", v |-> rows]
EmptyLine == <<"">>

\* s.replace(/(^"|"$)/g, ""): a leading and a trailing quote are dropped.
Quoted ==
  ("\"id\"" :> "id") @@ ("\"reason\"" :> "reason")
  @@ ("\"amount\"" :> "amount") @@ ("\"Bus\"" :> "Bus")
StripQuotes(s) == IF s \in DOMAIN Quoted THEN Quoted[s] ELSE s

\* s.trim()
Padded == (" date" :> "date") @@ (" category" :> "category")
Trim(s) == IF s \in DOMAIN Padded THEN Padded[s] ELSE s

\* The CSV files offered to the file input.
CsvFiles ==
  {CsvText(<<EmptyLine>>),
   CsvText(<<<<"id", "reason", "amount", "date", "category">>, EmptyLine>>),
   CsvText(<<<<"\"id\"", "\"reason\"", "\"amount\"", " date", " category">>,
             <<"", "Lunch", "7", "2024-02-14", "Food & Drink">>,
             EmptyLine,
             <<"1", "\"Bus\"", "-Infinity">>>>)}

\* lines.filter(Boolean)
NonEmptyLines(rows) == SelectSeq(rows, LAMBDA l : l # EmptyLine)

\* headers.forEach((h, i) => (obj[h] = parts[i])): a later column of the
\* same name overwrites an earlier one, a missing part is undefined.
RowObject(headers, line) ==
  LET parts == [i \in DOMAIN line |-> StripQuotes(line[i])]
      names == {headers[i] : i \in DOMAIN headers}
      col(h) == CHOOSE i \in DOMAIN headers :
                  /\ headers[i] = h
                  /\ \A j \in DOMAIN headers : headers[j] = h => j <= i
  IN  Obj([h \in names |->
             IF col(h) \in DOMAIN parts THEN Str(parts[col(h)])
             ELSE Undefined])

CsvRows(lines) ==
  LET headers == [i \in DOMAIN lines[1] |-> StripQuotes(Trim(lines[1][i]))]
  IN  [n \in 1..(Len(lines) - 1) |-> RowObject(headers, lines[n + 1])]

\* fr.onload of the CSV branch of handleFileImport.
onloadCSV(text) ==
  LET lines == NonEmptyLines(text.v)
  IN  IF Len(lines) < 2
      THEN /\ last' = Ran("importCSV", text, "CSV appears empty")
           /\ UNCHANGED <<expenses, storage>>
      ELSE /\ Len(expenses.v) + Len(lines) - 1 <= MaxLen
           /\ \E js \in Jitters(Len(lines) - 1) :
                SetExpenses(AppendAll(expenses.v,
                                      CleanedAll(CsvRows(lines), now, js)))
           /\ last' = Ran("importCSV", text, "CSV imported (basic parser)")

\* onFileChange -> handleFileImport: a file whose type is application/json
\* or whose name ends in .json takes the JSON branch, any other the CSV
\* branch; either branch starts fr.readAsText and returns.
StartRead(limit) ==
  /\ Mounted
  /\ Len(reading) < limit
  /\ \E json \in BOOLEAN :
       /\ reading' = Append(reading, json)
       /\ last' = Ran("handleFileImport",
                      IF json THEN Str("json") ELSE Str("csv"), NoAlert)
  /\ UNCHANGED <<expenses, storage, budget, now, view, worker>>

handleFileImport == StartRead(MaxReading)

\* A started read completes: its onload handler runs on the text read.
onload ==
  /\ Mounted
  /\ \E i \in DOMAIN reading :
       /\ reading' = SubSeq(reading, 1, i - 1)
                       \o SubSeq(reading, i + 1, Len(reading))
       /\ IF reading[i]
          THEN \E text \in JsonFiles : onloadJSON(text)
          ELSE \E text \in CsvFiles : onloadCSV(text)
  /\ UNCHANGED <<budget, now, view, worker>>

\* The page is closed and opened again: pending reads are dropped, the
\* state initializers run on what localStorage holds.
Reopen ==
  /\ expenses' = LoadExpenses(storage)
  /\ storage' = Persisted(LoadExpenses(storage), storage)
  /\ reading' = <<>>
  /\ last' = Ran("open", Undefined, NoAlert)
  /\ UNCHANGED <<budget, now, view, worker>>

Next ==
  \/ addExpense
  \/ deleteExpense
  \/ setBudget
  \/ handleFileImport
  \/ onload
  \/ Reopen
  \/ Tick

Spec == Init /\ [][Next]_vars

\* The store handlers with a second file chosen while the first is still
\* being read.
OverlapNext ==
  \/ addExpense
  \/ deleteExpense
  \/ StartRead(MaxOverlap)
  \/ onload
  \/ Tick

OverlapSpec == Init /\ [][OverlapNext]_vars

(* --------------------------- derived views ----------------------------- *)
\* expenses.reduce((acc, e) => acc + e.amount, 0)
RECURSIVE SumFrom(_, _)
SumFrom(acc, s) ==
  IF s = <<>> THEN acc
  ELSE SumFrom(Plus(acc, Get(Head(s), "amount")), Tail(s))

total(s) == SumFrom(Num(0), s)

\* Mutant of Accumulate: map[key] = amount.
AccumulateOverwrite(map, key, amount) ==
  IF \E i \in DOMAIN map : map[i].name = key
  THEN [i \in DOMAIN map |->
          IF map[i].name = key THEN [name |-> key, value |-> amount]
          ELSE map[i]]
  ELSE Append(map, [name |-> key, value |-> amount])

\* map[key] = (map[key] || 0) + amount, on an object kept as its entries
\* in insertion order.
Accumulate(map, key, amount) ==
  IF \E i \in DOMAIN map : map[i].name = key
  THEN [i \in DOMAIN map |->
          IF map[i].name = key
          THEN [name |-> key, value |-> Plus(Or(map[i].value, Num(0)), amount)]
          ELSE map[i]]
  ELSE Append(map, [name |-> key, value |-> Plus(Num(0), amount)])

\* Object.entries(categoryTotals): the reduce into acc[e.category].
RECURSIVE CategoriesFrom(_, _)
CategoriesFrom(map, s) ==
  IF s = <<>> THEN map
  ELSE CategoriesFrom(
         Accumulate(map, Get(Head(s), "category").v, Get(Head(s), "amount")),
         Tail(s))

categoryTotals(s) == CategoriesFrom(<<>>, s)

\* The for loop of monthlyTotals into map[monthKey(e.date)].
RECURSIVE MonthsFrom(_, _)
MonthsFrom(map, s) ==
  IF s = <<>> THEN map
  ELSE MonthsFrom(
         Accumulate(map, monthKey(Get(Head(s), "date")), Get(Head(s), "amount")),
         Tail(s))

\* The month keys in localeCompare order.
MonthOrder == <<"2024-01", "2024-02", "2024-03", "Unknown">>

\* .sort((a, b) => a.month.localeCompare(b.month))
SortByMonth(map) ==
  LET present == SelectSeq(MonthOrder,
                           LAMBDA m : \E i \in DOMAIN map : map[i].name = m)
  IN  [n \in DOMAIN present |->
         map[CHOOSE i \in DOMAIN map : map[i].name = present[n]]]

monthlyTotals(s) == SortByMonth(MonthsFrom(<<>>, s))

\* new Date(a.date) - new Date(b.date) as the sort reads it: a NaN result
\* (an Invalid Date on either side) counts as +0.
CompareDates(a, b) ==
  IF InvalidDate(Get(a, "date")) \/ InvalidDate(Get(b, "date")) THEN 0
  ELSE DateTable[Get(a, "date").v].day - DateTable[Get(b, "date").v].day

\* A comparator is consistent when "compares equal" and "compares less"
\* are transitive over the elements sorted.
ConsistentComparator(s) ==
  \A i, j, n \in DOMAIN s :
    /\ CompareDates(s[i], s[j]) = 0 /\ CompareDates(s[j], s[n]) = 0
         => CompareDates(s[i], s[n]) = 0
    /\ CompareDates(s[i], s[j]) < 0 /\ CompareDates(s[j], s[n]) <= 0
         => CompareDates(s[i], s[n]) < 0
    /\ CompareDates(s[i], s[j]) <= 0 /\ CompareDates(s[j], s[n]) < 0
         => CompareDates(s[i], s[n]) < 0

Orderings(n) ==
  {p \in [1..n -> 1..n] : \A i, j \in 1..n : p[i] = p[j] => i = j}

\* The orders Array.prototype.sort may leave the records in: the stable
\* ascending order under a consistent comparator, any order otherwise
\* (implementation-defined).
SortOrders(s) ==
  IF ConsistentComparator(s)
  THEN {p \in Orderings(Len(s)) :
          \A i, j \in DOMAIN s :
            i < j => \/ CompareDates(s[p[i]], s[p[j]]) < 0
                     \/ /\ CompareDates(s[p[i]], s[p[j]]) = 0
                        /\ p[i] < p[j]}
  ELSE Orderings(Len(s))

\* Mutant of RunningFrom: each point carries its own amount, acc is not
\* carried over.
RECURSIVE PointsFrom(_, _)
PointsFrom(acc, s) ==
  IF s = <<>> THEN <<>>
  ELSE <<[date |-> Get(Head(s), "date"),
          total |-> Plus(acc, Get(Head(s), "amount"))]>>
         \o PointsFrom(acc, Tail(s))

\* sorted.map((e) => { acc += e.amount; return { date, total: acc } })
RECURSIVE RunningFrom(_, _)
RunningFrom(acc, s) ==
  IF s = <<>> THEN <<>>
  ELSE LET t == Plus(acc, Get(Head(s), "amount"))
       IN  <<[date |-> Get(Head(s), "date"), total |-> t]>>
             \o RunningFrom(t, Tail(s))

\* cumulativeData when the sort leaves the records in order p.
cumulativeData(s, p) == RunningFrom(Num(0), [i \in DOMAIN s |-> s[p[i]]])

\* a / b for a >= 0 and b > 0, the only division percentOfBudget makes. A
\* quotient that is no integer is kept as the pair of its terms; the
\* quotient of two Numbers a < b never rounds up to 1.
Ratio(n, d) == [k |-> "ratio", v |-> <<n, d>>]
Divide(a, b) ==
  CASE a.k = "nan" \/ b.k = "nan" -> NaN
    [] a.k = "inf" /\ b.k = "inf" -> NaN
    [] a.k = "inf" -> a
    [] b.k = "inf" -> Num(0)
    [] OTHER -> IF a.v % b.v = 0 THEN Num(a.v \div b.v) ELSE Ratio(a.v, b.v)

\* Math.min(1, x): NaN when x is NaN.
MathMin1(x) ==
  CASE x.k = "nan" -> NaN
    [] x.k = "inf" -> IF x.v > 0 THEN Num(1) ELSE x
    [] x.k = "number" -> IF x.v >= 1 THEN Num(1) ELSE x
    [] x.k = "ratio" -> IF x.v[1] >= x.v[2] THEN Num(1) ELSE x

\* budget > 0 ? Math.min(1, Math.abs(total) / budget) : 0
percentOfBudget(s, b) ==
  IF Greater(b, Num(0))
  THEN MathMin1(Divide(MathAbs(total(s)), b))
  ELSE Num(0)

(* ------------------------------ insights ------------------------------- *)
\* -x
Negate(x) ==
  CASE x.k = "nan" -> NaN
    [] x.k = "inf" -> Inf(-x.v)
    [] x.k = "number" -> Num(-x.v)

\* a - b on numbers
Minus(a, b) == Plus(a, Negate(ToNumber(b)))

\* ((cur - prevv) / prevv) * 100 for prevv > 0: NaN, an infinity, or the
\* quotient kept as the pair of its terms (the division and the product do
\* not move a quotient across 25 or -25: a quotient of two Numbers other
\* than 1/4 differs from 1/4 by more than the rounding of either step).
PercentChange(cur, prevv) ==
  LET d == Minus(cur, prevv)
  IN  CASE d.k = "nan" -> NaN
        [] d.k = "inf" /\ prevv.k = "inf" -> NaN
        [] d.k = "inf" -> d
        [] prevv.k = "inf" -> Num(0)
        [] OTHER -> Ratio(100 * d.v, prevv.v)

\* x > n and x < n for a percentage x and an integer n
Over(x, n) ==
  CASE x.k = "nan" -> FALSE
    [] x.k = "inf" -> x.v > 0
    [] x.k = "number" -> x.v > n
    [] x.k = "ratio" -> x.v[1] > n * x.v[2]
Under(x, n) ==
  CASE x.k = "nan" -> FALSE
    [] x.k = "inf" -> x.v < 0
    [] x.k = "number" -> x.v < n
    [] x.k = "ratio" -> x.v[1] < n * x.v[2]

\* new Date(now.getFullYear(), now.getMonth() - 1, 1) as a month key.
PreviousMonth ==
  ("2024-01" :> "2023-12") @@ ("2024-02" :> "2024-01")
  @@ ("2024-03" :> "2024-02")

curMonthKey == DateTable[Today].month
prevKey == PreviousMonth[curMonthKey]

\* The for loop over expenses into map (month = curMonthKey) or mapPrev
\* (month = prevKey).
RECURSIVE MonthCategoriesFrom(_, _, _)
MonthCategoriesFrom(map, s, month) ==
  IF s = <<>> THEN map
  ELSE MonthCategoriesFrom(
         IF monthKey(Get(Head(s), "date")) = month
         THEN Accumulate(map, Get(Head(s), "category").v,
                         Get(Head(s), "amount"))
         ELSE map,
         Tail(s), month)

\* map[cat], undefined when map has no such key.
Lookup(map, cat) ==
  IF \E i \in DOMAIN map : map[i].name = cat
  THEN map[CHOOSE i \in DOMAIN map : map[i].name = cat].value
  ELSE Undefined

\* Object.keys({ ...map, ...mapPrev }): the keys of map, then the keys
\* only mapPrev has.
MergedKeys(map, mapPrev) ==
  [i \in DOMAIN map |-> map[i].name]
    \o [i \in DOMAIN SelectSeq(mapPrev,
                               LAMBDA m : Lookup(map, m.name) = Undefined) |->
          SelectSeq(mapPrev,
                    LAMBDA m : Lookup(map, m.name) = Undefined)[i].name]

\* A tip is kept as its kind and the category it names; the amounts and
\* percentages printed in its text are left out.
Tip(kind, cat) == [tip |-> kind, cat |-> cat]

\* The body of the loop over the merged keys: the tips pushed for cat.
CategoryTip(map, mapPrev, cat) ==
  LET cur == MathAbs(Or(Lookup(map, cat), Num(0)))
      prevv == MathAbs(Or(Lookup(mapPrev, cat), Num(0)))
  IN  IF prevv = Num(0) /\ Greater(cur, Num(0))
      THEN <<Tip("started", cat)>>
      ELSE IF Greater(prevv, Num(0))
      THEN IF Over(PercentChange(cur, prevv), 25)
           THEN <<Tip("more", cat)>>
           ELSE IF Under(PercentChange(cur, prevv), -25)
           THEN <<Tip("less", cat)>>
           ELSE <<>>
      ELSE <<>>

RECURSIVE CategoryTips(_, _, _)
CategoryTips(map, mapPrev, keys) ==
  IF keys = <<>> THEN <<>>
  ELSE CategoryTip(map, mapPrev, Head(keys))
         \o CategoryTips(map, mapPrev, Tail(keys))

BudgetAlert == Tip("budget", "")

\* Mutant of Unshift: tips.push(alert).
Push(tips, alert) == tips \o <<alert>>

\* tips.unshift(alert)
Unshift(tips, alert) == <<alert>> \o tips

\* The insights memo for the store s and the budget b.
insights(s, b) ==
  LET map == MonthCategoriesFrom(<<>>, s, curMonthKey)
      mapPrev == MonthCategoriesFrom(<<>>, s, prevKey)
      tips == CategoryTips(map, mapPrev, MergedKeys(map, mapPrev))
  IN  IF Greater(MathAbs(total(s)), Or(b, Inf(1))) /\ Greater(b, Num(0))
      THEN Unshift(tips, BudgetAlert)
      ELSE tips

(* --------------------------- filter and sort --------------------------- *)
\* new Date(a) >= new Date(b) and <=: false when either is an Invalid Date.
DateGE(a, b) ==
  /\ ~InvalidDate(a) /\ ~InvalidDate(b)
  /\ DateTable[a.v].day >= DateTable[b.v].day
DateLE(a, b) ==
  /\ ~InvalidDate(a) /\ ~InvalidDate(b)
  /\ DateTable[a.v].day <= DateTable[b.v].day

\* The sign of x - y as Array.prototype.sort reads it: NaN counts as +0.
Sign(x) ==
  CASE x.k = "nan" -> 0
    [] x.k = "inf" -> x.v
    [] x.k = "number" -> IF x.v > 0 THEN 1 ELSE IF x.v < 0 THEN -1 ELSE 0

\* The comparator list.sort is given for each value of sortBy.
Compare(key, a, b) ==
  CASE key = "newest" -> Sign(Minus(ToNumber(Get(b, "id")), Get(a, "id")))
    [] key = "oldest" -> Sign(Minus(ToNumber(Get(a, "id")), Get(b, "id")))
    [] key = "high" ->
         Sign(Minus(ToNumber(Get(b, "amount")), Get(a, "amount")))
    [] key = "low" ->
         Sign(Minus(ToNumber(Get(a, "amount")), Get(b, "amount")))

\* As ConsistentComparator and SortOrders, for the comparator of sortBy.
ConsistentCompare(key, s) ==
  \A i, j, n \in DOMAIN s :
    /\ Compare(key, s[i], s[j]) = 0 /\ Compare(key, s[j], s[n]) = 0
         => Compare(key, s[i], s[n]) = 0
    /\ Compare(key, s[i], s[j]) < 0 /\ Compare(key, s[j], s[n]) <= 0
         => Compare(key, s[i], s[n]) < 0
    /\ Compare(key, s[i], s[j]) <= 0 /\ Compare(key, s[j], s[n]) < 0
         => Compare(key, s[i], s[n]) < 0

SortOrdersBy(key, s) ==
  IF ConsistentCompare(key, s)
  THEN {p \in Orderings(Len(s)) :
          \A i, j \in DOMAIN s :
            i < j => \/ Compare(key, s[p[i]], s[p[j]]) < 0
                     \/ /\ Compare(key, s[p[i]], s[p[j]]) = 0
                        /\ p[i] < p[j]}
  ELSE Orderings(Len(s))

\* The three filters of the filtered memo, on a copy of the store.
Kept(s, fc, from, to) ==
  LET byCategory == IF fc # "All"
                    THEN SelectSeq(s, LAMBDA x : Get(x, "category") = Str(fc))
                    ELSE s
      byFrom == IF Truthy(Str(from))
                THEN SelectSeq(byCategory,
                               LAMBDA x : DateGE(Get(x, "date"), Str(from)))
                ELSE byCategory
  IN  IF Truthy(Str(to))
      THEN SelectSeq(byFrom, LAMBDA x : DateLE(Get(x, "date"), Str(to)))
      ELSE byFrom

\* The lists the filtered memo may hold: list.sort sorts the copy in place.
filtered(s, fc, from, to, key) ==
  LET list == Kept(s, fc, from, to)
  IN  {[i \in DOMAIN list |-> list[p[i]]] : p \in SortOrdersBy(key, list)}

(* ------------------------------- exports ------------------------------- *)
\* r[h] ?? ""
OrEmpty(x) == IF x.k \in {"null", "undefined"} THEN Str("") ELSE x

CsvHeaders == <<"id", "reason", "amount", "date", "category">>

\* The lines of the csv text of downloadCSV: the header names, then per
\* record the JSON text of each field (joined by "," and "\n" in the file).
CsvLines(records) ==
  <<[i \in DOMAIN CsvHeaders |-> Str(CsvHeaders[i])]>>
    \o [n \in DOMAIN records |->
          [i \in DOMAIN CsvHeaders |->
             JSONstringify(OrEmpty(Get(records[n], CsvHeaders[i])))]]

\* What doc.save writes: the title, the table rows and the total line.
PdfLines(records, title) ==
  <<<<Str(title)>>>>
    \o [n \in DOMAIN records |->
          <<Get(records[n], "reason"), Get(records[n], "category"),
            Get(records[n], "date"), Get(records[n], "amount")>>]
    \o <<<<total(records)>>>>

Saved(kind, lines) == [kind |-> kind, lines |-> lines]

\* onClick of the CSV button: downloadCSV(expenses).
downloadCSV ==
  /\ Mounted
  /\ IF Len(expenses.v) = 0
     THEN /\ last' = Ran("downloadCSV", Undefined, "No records to export.")
          /\ exported' = [pdf |-> FALSE, file |-> NoFile]
     ELSE /\ last' = Ran("downloadCSV", Undefined, NoAlert)
          /\ exported' = [pdf |-> FALSE,
                          file |-> Saved("csv", CsvLines(expenses.v))]
  /\ UNCHANGED <<expenses, storage, budget, now, reading, filterCategory,
                 filterFrom, filterTo, sortBy, worker>>

\* The month keys a monthly report is asked for.
ReportMonths == {"2024-02", "2024-03", "2023-12", "Unknown"}

\* expenses.filter((e) => monthKey(e.date) === monthKeyStr)
MonthRows(s, m) == SelectSeq(s, LAMBDA e : monthKey(Get(e, "date")) = m)

\* Mutant of ReportRefuses: the report of an empty month is written.
ReportNeverRefuses(rows) == FALSE

\* !rows.length
ReportRefuses(rows) == Len(rows) = 0

\* generateMonthlyReportPDF(monthKeyStr), with downloadPDF: the dynamic
\* imports of jspdf and jspdf-autotable resolve (loaded) or reject, and a
\* rejection is caught.
generateMonthlyReportPDF ==
  /\ Mounted
  /\ \E m \in ReportMonths :
       LET rows == MonthRows(expenses.v, m)
       IN  IF ReportRefuses(rows)
           THEN /\ last' = Ran("generateMonthlyReportPDF", Str(m),
                               "No data for that month")
                /\ exported' = [pdf |-> FALSE, file |-> NoFile]
           ELSE \E loaded \in BOOLEAN :
                  IF loaded
                  THEN /\ last' = Ran("generateMonthlyReportPDF", Str(m),
                                      NoAlert)
                       /\ exported' =
                            [pdf |-> TRUE,
                             file |-> Saved("pdf", PdfLines(rows, m))]
                  ELSE /\ last' = Ran("generateMonthlyReportPDF", Str(m),
                                      "Please install jspdf and jspdf-autotable (see README).")
                       /\ exported' = [pdf |-> TRUE, file |-> NoFile]
  /\ UNCHANGED <<expenses, storage, budget, now, reading, filterCategory,
                 filterFrom, filterTo, sortBy, worker>>

(* ------------------------------ controls ------------------------------- *)
\* The options of the category select that are explored, the days the two
\* date inputs are set to, the options of the sort select.
FilterCategories == {"All", "Food & Drink"}
FilterDates == {"", "2024-02-14"}
SortKeys == {"newest", "oldest", "high", "low"}

\* The onChange handlers of the four controls. The filtered memo sorts a
\* copy of the store ([...expenses]); the array of the state is not touched.
setFilterCategory ==
  /\ Mounted
  /\ \E c \in FilterCategories : filterCategory' = c
  /\ UNCHANGED <<expenses, storage, budget, now, reading, last, filterFrom,
                 filterTo, sortBy, exported, worker>>

setFilterFrom ==
  /\ Mounted
  /\ \E d \in FilterDates : filterFrom' = d
  /\ UNCHANGED <<expenses, storage, budget, now, reading, last,
                 filterCategory, filterTo, sortBy, exported, worker>>

setFilterTo ==
  /\ Mounted
  /\ \E d \in FilterDates : filterTo' = d
  /\ UNCHANGED <<expenses, storage, budget, now, reading, last,
                 filterCategory, filterFrom, sortBy, exported, worker>>

setSortBy ==
  /\ Mounted
  /\ \E key \in SortKeys : sortBy' = key
  /\ UNCHANGED <<expenses, storage, budget, now, reading, last,
                 filterCategory, filterFrom, filterTo, exported, worker>>

(* ---------------------- the views of a given store --------------------- *)
\* Records as the import of a JSON file leaves them in the store.
Expense(id, amount, date, category) ==
  Obj([id |-> id, reason |-> Str("Imported"), amount |-> amount,
       date |-> Str(date), category |-> Str(category)])

ViewRecords ==
  {Expense(Num(1), Num(4), "2024-02-14", "Food & Drink"),
   Expense(Num(2), Num(5), "2024-03-10", "Food & Drink"),
   Expense(Num(3), Num(3), "2024-03-10", "Food & Drink"),
   Expense(Str("b2"), Inf(1), "2024-02-14", "Bills"),
   Expense(Num(4), Num(1), "2024-03-10", "Bills"),
   Expense(Num(5), Num(8), "2024-01-05", "Food & Drink")}

\* The stores of at most MaxLen of these records, no record twice.
ViewStores ==
  {s \in UNION {[1..n -> ViewRecords] : n \in 0..MaxLen} :
     \A i, j \in DOMAIN s : s[i] = s[j] => i = j}

\* The page is open on one of these stores.
ViewInit ==
  /\ \E s \in ViewStores :
       /\ expenses = Arr(s)
       /\ storage = JSONstringify(Arr(s))
  /\ \E raw \in InitialBudget : budget = LoadBudget(raw)
  /\ now = 1
  /\ reading = <<>>
  /\ last = Ran("open", Undefined, NoAlert)
  /\ ControlsOpen
  /\ WorkerParsed(NoCaches)

ViewNext ==
  \/ setBudget
  \/ setFilterCategory
  \/ setFilterFrom
  \/ setFilterTo
  \/ setSortBy
  \/ downloadCSV
  \/ generateMonthlyReportPDF

ViewSpec == ViewInit /\ [][ViewNext]_vars

(* --------------------------- service worker --------------------------- *)
\* The App: the worker has no access to its state.
app == <<expenses, storage, budget, now, reading, last, view>>

ASSETS == {"/", "/index.html", "/favicon.ico"}

\* A cache of CacheStorage: its name and the URLs it has a response for.
Cache(name, urls) == [name |-> name, urls |-> urls]

\* CacheStorage when the worker script is first run: nothing, the cache of
\* a superseded version, that and a cache of another name, or a cache of
\* the fixed name left by an earlier registration.
StoredCaches ==
  {NoCaches,
   <<Cache("fintrack-cache-v0", {"/", "/old.js"})>>,
   <<Cache("fintrack-cache-v0", {"/", "/old.js"}),
     Cache("images", {"/logo.png"})>>,
   <<Cache(CACHE_NAME, {"/", "/logo.png"}),
     Cache("images", {"/logo.png"})>>}

\* The URLs of the requests the controlled page makes.
Requests == {"/", "/index.html", "/api/expenses", "/logo.png", "/old.js"}

CacheNames(cs) == {cs[i].name : i \in DOMAIN cs}

\* caches.open(name): the cache is created when there is none of that name.
Opened(cs, name) ==
  IF name \in CacheNames(cs) THEN cs ELSE Append(cs, Cache(name, {}))

\* cache.addAll(urls) on the cache called name, once every request has
\* been answered.
AddedAll(cs, name, urls) ==
  [i \in DOMAIN cs |->
     IF cs[i].name = name THEN Cache(name, cs[i].urls \cup urls) ELSE cs[i]]

\* caches.delete(name)
Deleted(cs, name) == SelectSeq(cs, LAMBDA c : c.name # name)

\* caches.match(url) looks through the caches in the order of their
\* creation: the name of the first cache that has a response, "" when
\* there is none (the promise resolves to undefined).
Match(cs, url) ==
  IF \E i \in DOMAIN cs : url \in cs[i].urls
  THEN cs[CHOOSE i \in DOMAIN cs :
            /\ url \in cs[i].urls
            /\ \A j \in DOMAIN cs : url \in cs[j].urls => i <= j].name
  ELSE ""

\* The response a fetch event was answered with: the request, whether
\* fetch was called and how it ended, and where the response came from
\* (the cache entry of a URL, the network, or nothing).
Answer(request, network, from) ==
  [request |-> request, network |-> network, from |-> from]

\* The install event: caches.open(CACHE_NAME), then cache.addAll(ASSETS)
\* sends its requests; self.skipWaiting().
onInstall ==
  /\ phase = "parsed"
  /\ phase' = "installing"
  /\ caches' = Opened(caches, CACHE_NAME)
  /\ UNCHANGED <<deleting, fetching, answer, app>>

\* cache.addAll settles: every asset was fetched and is stored, or a
\* request failed, nothing is stored and the installation fails.
addAllSettles ==
  /\ phase = "installing"
  /\ \E ok \in BOOLEAN :
       IF ok
       THEN /\ caches' = AddedAll(caches, CACHE_NAME, ASSETS)
            /\ phase' = "installed"
       ELSE /\ phase' = "redundant"
            /\ UNCHANGED caches
  /\ UNCHANGED <<deleting, fetching, answer, app>>

\* Mutant of Superseded: no cache is taken for superseded.
SupersededNever(k) == FALSE

\* keys.filter((k) => k !== CACHE_NAME)
Superseded(k) == k # CACHE_NAME

\* The activate event (skipWaiting: as soon as the worker is installed):
\* caches.keys(), then a caches.delete for every key but CACHE_NAME.
onActivate ==
  /\ phase = "installed"
  /\ phase' = "activating"
  /\ deleting' = {k \in CacheNames(caches) : Superseded(k)}
  /\ UNCHANGED <<caches, fetching, answer, app>>

\* One of the caches.delete calls of Promise.all completes.
cachesDelete ==
  /\ phase = "activating"
  /\ \E k \in deleting :
       /\ caches' = Deleted(caches, k)
       /\ deleting' = deleting \ {k}
  /\ UNCHANGED <<phase, fetching, answer, app>>

\* Promise.all has resolved: the activate event is complete and fetch
\* events are dispatched to the worker from now on.
activated ==
  /\ phase = "activating"
  /\ deleting = {}
  /\ phase' = "activated"
  /\ UNCHANGED <<caches, deleting, fetching, answer, app>>

\* The fetch event: caches.match(ev.request), then the cached response or
\* fetch(ev.request).
onFetch ==
  /\ phase = "activated"
  /\ \E url \in Requests :
       IF Match(caches, url) # ""
       THEN /\ answer' = Answer(url, "unused", url)
            /\ UNCHANGED fetching
       ELSE /\ url \notin fetching
            /\ Cardinality(fetching) < MaxFetching
            /\ fetching' = fetching \cup {url}
            /\ UNCHANGED answer
  /\ UNCHANGED <<phase, caches, deleting, app>>

\* fetch(ev.request) settles: the response is passed on, or the request
\* failed and the catch handler answers with caches.match("/").
fetchSettles ==
  /\ phase = "activated"
  /\ \E url \in fetching :
       /\ fetching' = fetching \ {url}
       /\ \E ok \in BOOLEAN :
            answer' = IF ok THEN Answer(url, "ok", "network")
                      ELSE IF Match(caches, "/") # ""
                      THEN Answer(url, "failed", "/")
                      ELSE Answer(url, "failed", "none")
  /\ UNCHANGED <<phase, caches, deleting, app>>

\* The page is not open while the worker is looked at.
AppClosed ==
  /\ expenses = Arr(<<>>)
  /\ storage = Null
  /\ budget = Num(0)
  /\ now = 1
  /\ reading = <<>>
  /\ last = Ran("open", Undefined, NoAlert)
  /\ ControlsOpen

WorkerInit ==
  /\ AppClosed
  /\ \E stored \in StoredCaches : WorkerParsed(stored)

WorkerNext ==
  \/ onInstall
  \/ addAllSettles
  \/ onActivate
  \/ cachesDelete
  \/ activated
  \/ onFetch
  \/ fetchSettles

WorkerSpec == WorkerInit /\ [][WorkerNext]_vars

(* ------------------------------- claims -------------------------------- *)
Store == expenses.v
Ids(s) == {Get(s[i], "id") : i \in DOMAIN s}

\* C1: no two records in the store have the same id.
C1_IdsUnique ==
  Mounted =>
    \A i, j \in DOMAIN Store :
      Get(Store[i], "id") = Get(Store[j], "id") => i = j

\* C2: every record in the store has a category of the fixed set.
C2_CategoryKnown ==
  Mounted =>
    \A i \in DOMAIN Store :
      /\ Get(Store[i], "category").k = "string"
      /\ Get(Store[i], "category").v \in CATEGORY_META

\* The records of s whose id is not id, in the order of s.
Others(s, id) == SelectSeq(s, LAMBDA e : Get(e, "id") # id)

\* C3: a delete of an id no record has leaves the store unchanged, a second
\* delete of the same id changes nothing after the first, and a delete
\* neither removes nor reorders the records of any other id.
C3_RemoveIdempotent ==
  [][last'.op = "deleteExpense" =>
       LET id == last'.arg
       IN  /\ Others(Store', id) = Others(Store, id)
           /\ id \notin Ids(Store) => Store' = Store
           /\ Store' = Store \/ id \notin Ids(Store')
           /\ Remove(Store', id) = Store' \/ Store' = Store
           /\ Remove(Remove(Store, id), id) = Remove(Store, id)]_vars

\* A confirmed delete of an id took its record out of a store and left
\* two others.
C3_Witness ==
  /\ last.op = "deleteExpense"
  /\ last.arg # AbsentId
  /\ last.arg \notin Ids(Store)
  /\ Len(Store) = 2

\* A delete of an id that no record carried ran on a store of two records.
C3_WitnessAbsent ==
  /\ last.op = "deleteExpense"
  /\ last.arg = AbsentId
  /\ Len(Store) = 2

\* C8: after startup the store is a sequence of records, and it is empty
\* when the persisted value was missing or corrupt.
C8_LoadFailsSoft ==
  last.op = "open" =>
    /\ IsArray(expenses)
    /\ \A i \in DOMAIN Store : Store[i].k = "object"

\* The sum of the values of a totals object, in the order of its entries.
RECURSIVE SumValuesFrom(_, _)
SumValuesFrom(acc, map) ==
  IF map = <<>> THEN acc
  ELSE SumValuesFrom(Plus(acc, Head(map).value), Tail(map))
SumValues(map) == SumValuesFrom(Num(0), map)

Amounts(s) == [i \in DOMAIN s |-> Get(s[i], "amount")]

RECURSIVE Magnitude(_)
Magnitude(s) ==
  IF s = <<>> THEN 0 ELSE AbsInt(Head(s).v) + Magnitude(Tail(s))

\* Every amount is a finite number and no sum of amounts is rounded.
ExactSums(s) ==
  /\ \A i \in DOMAIN s : Get(s[i], "amount").k = "number"
  /\ Magnitude(Amounts(s)) <= Pow2(MantBits)

\* C4 as claimed: the category totals, the monthly totals and the grand
\* total add up to the same number for every store.
C4_TotalsAgree ==
  Mounted =>
    /\ SumValues(categoryTotals(Store)) = total(Store)
    /\ SumValues(monthlyTotals(Store)) = total(Store)

\* C4 amended: the three sums are the same number whenever the amounts are
\* finite and no addition rounds; each record is in one category bucket and
\* one month bucket.
C4_TotalsAgreeExact ==
  Mounted /\ ExactSums(Store) =>
    /\ SumValues(categoryTotals(Store)) = total(Store)
    /\ SumValues(monthlyTotals(Store)) = total(Store)

\* Three records with exact sums, two of them in one category, one in the
\* "Unknown" month, and a total that is not zero.
C4_Witness ==
  /\ Mounted
  /\ Len(Store) = 3
  /\ ExactSums(Store)
  /\ Len(categoryTotals(Store)) = 2
  /\ \E i \in DOMAIN monthlyTotals(Store) :
       /\ monthlyTotals(Store)[i].name = "Unknown"
       /\ monthlyTotals(Store)[i].value # Num(0)
  /\ total(Store) # Num(0)

\* The records a JSON export and re-import into an empty store gives.
Reimported(s) ==
  LET text == JSONstringify(Arr(s))
  IN  IF ImportThrows(text) THEN {}
      ELSE {CleanedAll(JSONparse(text).v, now, js) : js \in Jitters(Len(s))}

Records(s) == {s[i] : i \in DOMAIN s}

\* C5: export to JSON, then import into an empty store, gives the records
\* of the original store.
C5_RoundTrip ==
  Mounted =>
    /\ Reimported(Store) # {}
    /\ \A r \in Reimported(Store) : Records(r) = Records(Store)

\* The number of records a text holds: the elements of a JSON array, the
\* non-empty lines of a CSV text after its header line.
DataLines(text) ==
  LET lines == SelectSeq(text.v, LAMBDA l : l # <<"">>)
  IN  SubSeq(lines, 2, Len(lines))
RecordCount(text) ==
  IF text.k = "json" THEN Len(text.v.v) ELSE Len(DataLines(text))

ImportDone == {"Imported successfully", "CSV imported (basic parser)"}

\* The step is the onload handler of a read: only onload and Reopen take a
\* read out of `reading`, and Reopen leaves last.op = "open".
ImportStep ==
  /\ Len(reading') < Len(reading)
  /\ last'.op \in {"importJSON", "importCSV"}

\* The i-th record appended comes from the i-th record of the text: it
\* has that record's reason.
FromRecord(e, text, i) ==
  IF text.k = "json"
  THEN Truthy(Get(text.v.v[i], "category"))
         => Get(e, "category") = Get(text.v.v[i], "category")
  ELSE Get(e, "reason").v \in {DataLines(text)[i][2],
                               StripQuotes(DataLines(text)[i][2])}

\* C6: a successful import of a text of N records leaves the previous
\* store as a prefix of the new one and appends N records in the order of
\* the text; an empty JSON array is imported without an error and without
\* a change.
C6_ImportAppends ==
  [][ImportStep =>
       /\ last'.alert \in ImportDone =>
            LET n == RecordCount(last'.arg)
            IN  /\ Len(Store') = Len(Store) + n
                /\ SubSeq(Store', 1, Len(Store)) = Store
                /\ \A i \in 1..n :
                     FromRecord(Store'[Len(Store) + i], last'.arg, i)
       /\ last'.arg = JsonText(Arr(<<>>)) =>
            /\ last'.alert \in ImportDone
            /\ Store' = Store]_vars

\* An import of two records was appended to a store that held one.
C6_Witness ==
  /\ Mounted
  /\ last.alert \in ImportDone
  /\ RecordCount(last.arg) = 2
  /\ Len(Store) = 3

\* An empty JSON array was imported into a store that held records.
C6_WitnessEmpty ==
  /\ Mounted
  /\ last.alert \in ImportDone
  /\ last.arg = JsonText(Arr(<<>>))
  /\ Len(Store) = 2

MissingField(f) == f.reason = "" \/ f.amount = "" \/ f.date = ""
NotJsonArray(text) == text.k # "json" \/ text.v.k # "array"
Rejected ==
  {"Please fill reason, amount and date", "Invalid JSON file.",
   "CSV appears empty"}

\* C7: a submit with a required field missing, a JSON import of text that
\* is malformed or no array, and a CSV import of fewer than two non-empty
\* lines raise their alert and leave the store and its persisted copy as
\* they were; so does every handler that ends in an alert of rejection.
\* (A step that is not the handler named by last' leaves last, the store
\* and its copy alone.)
C7_RejectedNoMutation ==
  [][/\ last'.op = "addExpense" /\ MissingField(last'.arg) =>
          /\ last'.alert = "Please fill reason, amount and date"
          /\ expenses' = expenses /\ storage' = storage
     /\ last'.op = "importJSON" /\ NotJsonArray(last'.arg) =>
          /\ last'.alert = "Invalid JSON file."
          /\ expenses' = expenses /\ storage' = storage
     /\ last'.op = "importCSV" /\ RecordCount(last'.arg) < 1 =>
          /\ last'.alert = "CSV appears empty"
          /\ expenses' = expenses /\ storage' = storage
     /\ last'.alert \in Rejected =>
          expenses' = expenses /\ storage' = storage]_vars

\* A JSON array whose second element cannot be read was rejected by a
\* store that held records.
C7_Witness ==
  /\ Mounted
  /\ last.alert = "Invalid JSON file."
  /\ ~NotJsonArray(last.arg)
  /\ Len(Store) = 2

\* A submit without a date was rejected.
C7_WitnessForm ==
  /\ Mounted
  /\ last.op = "addExpense"
  /\ last.arg.date = ""
  /\ last.alert \in Rejected
  /\ Len(Store) = 1

NonDecreasing(series) ==
  \A i \in 1..(Len(series) - 1) :
    GreaterEq(series[i + 1].total, series[i].total)

AllNonNegative(s) ==
  \A i \in DOMAIN s : GreaterEq(ToNumber(Get(s[i], "amount")), Num(0))

\* C9 as claimed: the cumulative series is non-decreasing exactly when all
\* amounts are non-negative.
C9_MonotoneIff ==
  Mounted =>
    \A p \in SortOrders(Store) :
      NonDecreasing(cumulativeData(Store, p)) <=> AllNonNegative(Store)

\* C9 amended: the series is non-decreasing when all amounts are
\* non-negative; when the sums are exact, the series does not fall below
\* its starting total 0 at its first point and is non-decreasing, then all
\* amounts are non-negative.
C9_MonotoneIfNonNegative ==
  Mounted =>
    \A p \in SortOrders(Store) :
      LET series == cumulativeData(Store, p)
      IN  /\ Len(series) = Len(Store)
          /\ AllNonNegative(Store) => NonDecreasing(series)
          /\ /\ ExactSums(Store)
             /\ NonDecreasing(<<[date |-> Null, total |-> Num(0)]>> \o series)
             => AllNonNegative(Store)

\* Non-negative amounts, not all equal, in a store the sort reorders.
C9_Witness ==
  /\ Mounted
  /\ Len(Store) = 3
  /\ AllNonNegative(Store)
  /\ \E i, j \in DOMAIN Store :
       /\ i < j
       /\ CompareDates(Store[i], Store[j]) > 0
       /\ Greater(Get(Store[i], "amount"), Get(Store[j], "amount"))

InUnitInterval(x) ==
  \/ x.k = "number" /\ x.v \in {0, 1}
  \/ x.k = "ratio" /\ 0 < x.v[1] /\ x.v[1] < x.v[2]

\* C10: the budget percentage lies in [0, 1], is 0 when the budget is not
\* positive, and is 1 exactly when the budget is positive and the absolute
\* total reaches it.
C10_PercentClamped ==
  Mounted =>
    LET pct == percentOfBudget(Store, budget)
    IN  /\ InUnitInterval(pct)
        /\ ~Greater(budget, Num(0)) => pct = Num(0)
        /\ pct = Num(1) <=>
             /\ Greater(budget, Num(0))
             /\ GreaterEq(MathAbs(total(Store)), budget)

\* Total absolute spend exceeds a configured positive budget.
BudgetExceeded ==
  /\ Greater(budget, Num(0))
  /\ Greater(MathAbs(total(Store)), budget)

\* C11: when total absolute spend exceeds a positive budget the insight
\* list starts with the budget alert and holds it once, ahead of every
\* category tip; otherwise the list holds no budget alert.
C11_BudgetAlertFirst ==
  Mounted =>
    LET tips == insights(Store, budget)
    IN  /\ BudgetExceeded =>
             /\ tips # <<>>
             /\ tips[1] = BudgetAlert
             /\ \A i \in 2..Len(tips) : tips[i].tip # "budget"
        /\ ~BudgetExceeded =>
             \A i \in DOMAIN tips : tips[i].tip # "budget"

\* The budget is exceeded and the alert is followed by two category tips.
C11_Witness ==
  /\ Mounted
  /\ BudgetExceeded
  /\ Len(insights(Store, budget)) = 3

\* A positive budget is not exceeded and the list holds a category tip.
C11_WitnessWithin ==
  /\ Mounted
  /\ Greater(budget, Num(0))
  /\ ~BudgetExceeded
  /\ insights(Store, budget) # <<>>

\* C12: every record of the store has an amount that is a number, and the
\* grand total of the store is a number.
C12_AmountsNumeric ==
  Mounted =>
    /\ \A i \in DOMAIN Store : ToNumber(Get(Store[i], "amount")).k # "nan"
    /\ total(Store).k # "nan"

\* What was spent in category c in a month: the absolute value of the sum
\* of the amounts of the month's records of that category.
Spend(s, month, c) ==
  MathAbs(total(SelectSeq(s, LAMBDA e : /\ monthKey(Get(e, "date")) = month
                                        /\ Get(e, "category") = Str(c))))

\* cur is more than 25% above prev, more than 25% below prev.
QuarterAbove(cur, prev) ==
  CASE cur.k = "nan" \/ prev.k = "nan" -> FALSE
    [] prev.k = "inf" -> FALSE
    [] cur.k = "inf" -> TRUE
    [] OTHER -> 4 * cur.v > 5 * prev.v
QuarterBelow(cur, prev) ==
  CASE cur.k = "nan" \/ prev.k = "nan" -> FALSE
    [] cur.k = "inf" -> FALSE
    [] prev.k = "inf" -> TRUE
    [] OTHER -> 4 * cur.v < 3 * prev.v

\* The tips the heuristics are to give for category c.
ExpectedTips(s, c) ==
  LET cur == Spend(s, curMonthKey, c)
      prev == Spend(s, prevKey, c)
  IN  IF prev = Num(0) /\ Greater(cur, Num(0)) THEN <<Tip("started", c)>>
      ELSE IF Greater(prev, Num(0)) /\ QuarterAbove(cur, prev)
      THEN <<Tip("more", c)>>
      ELSE IF Greater(prev, Num(0)) /\ QuarterBelow(cur, prev)
      THEN <<Tip("less", c)>>
      ELSE <<>>

StoreCategories(s) == {Get(s[i], "category").v : i \in DOMAIN s}

\* C13: for every category the insight list holds the one tip the
\* comparison of this month's spend with last month's calls for ("started",
\* "more" above 25%, "less" below 25%), and no tip otherwise.
C13_OneTipPerCategory ==
  Mounted =>
    \A c \in CATEGORY_META \cup StoreCategories(Store) :
      SelectSeq(insights(Store, budget), LAMBDA t : t.cat = c)
        = ExpectedTips(Store, c)

\* The same for the stores whose amounts are all finite.
C13_TipsOfFiniteAmounts ==
  Mounted /\ (\A i \in DOMAIN Store : Get(Store[i], "amount").k = "number") =>
    \A c \in CATEGORY_META \cup StoreCategories(Store) :
      SelectSeq(insights(Store, budget), LAMBDA t : t.cat = c)
        = ExpectedTips(Store, c)

\* The record passes the category filter and the date bounds that are set.
Matches(e) ==
  /\ filterCategory = "All" \/ Get(e, "category") = Str(filterCategory)
  /\ filterFrom = "" \/ /\ ~InvalidDate(Get(e, "date"))
                        /\ DateTable[Get(e, "date").v].day
                             >= DateTable[filterFrom].day
  /\ filterTo = "" \/ /\ ~InvalidDate(Get(e, "date"))
                      /\ DateTable[Get(e, "date").v].day
                           <= DateTable[filterTo].day

\* How often the record r occurs in the sequence s.
Count(s, r) == Cardinality({i \in DOMAIN s : s[i] = r})

\* Under the sort key, a belongs strictly before b.
Before(key, a, b) ==
  CASE key = "newest" ->
         Greater(ToNumber(Get(a, "id")), ToNumber(Get(b, "id")))
    [] key = "oldest" ->
         Greater(ToNumber(Get(b, "id")), ToNumber(Get(a, "id")))
    [] key = "high" ->
         Greater(ToNumber(Get(a, "amount")), ToNumber(Get(b, "amount")))
    [] key = "low" ->
         Greater(ToNumber(Get(b, "amount")), ToNumber(Get(a, "amount")))

FilteredAsClaimed(list) ==
  /\ \A r \in Records(Store) \cup Records(list) :
       Count(list, r) = IF Matches(r) THEN Count(Store, r) ELSE 0
  /\ \A i, j \in DOMAIN list : i < j => ~Before(sortBy, list[j], list[i])

\* C14: the filtered list holds exactly the records of the store that pass
\* the category filter and the date bounds, each as often as the store
\* does, and no record of it stands behind one it belongs before under the
\* chosen sort key (newest and oldest by id, high and low by amount).
C14_FilteredSorted ==
  Mounted =>
    \A list \in filtered(Store, filterCategory, filterFrom, filterTo, sortBy) :
      FilteredAsClaimed(list)

\* The same for the stores whose ids are all numbers.
C14_SortedWhenIdsNumeric ==
  Mounted /\ (\A i \in DOMAIN Store : Get(Store[i], "id").k = "number") =>
    \A list \in filtered(Store, filterCategory, filterFrom, filterTo, sortBy) :
      FilteredAsClaimed(list)

\* C15: the onload handler of a successful import appends its records in
\* one step, as one block behind the store as it is at that time: every
\* record added since the read began, every record of an import that
\* completed in between, stays where it is; no record deleted since the
\* read began comes back; a read still in flight stays in flight. An add
\* or a delete leaves the reads in flight alone.
C15_ImportsAtomic ==
  [][/\ ImportStep /\ last'.alert \in ImportDone =>
          /\ SubSeq(Store', 1, Len(Store)) = Store
          /\ Len(Store') = Len(Store) + RecordCount(last'.arg)
          /\ Len(reading') = Len(reading) - 1
     /\ last'.op \in {"addExpense", "deleteExpense"} => reading' = reading
    ]_vars

\* Of two reads in flight at once one has completed and appended its
\* records behind a store that held a record; the other is still in flight.
C15_Witness ==
  /\ Mounted
  /\ last.alert \in ImportDone
  /\ RecordCount(last.arg) >= 1
  /\ Len(reading) = 1
  /\ Len(Store) > RecordCount(last.arg)

\* A record was added while two reads were in flight, and either read can
\* still complete.
C15_WitnessAdd ==
  /\ Mounted
  /\ last.op = "addExpense"
  /\ last.alert = NoAlert
  /\ Len(reading) = 2
  /\ Len(Store) < MaxLen

\* C16: whenever no read is in flight the persisted text is the
\* serialisation of the store, and opening the page on it gives the
\* records of the store.
C16_ReloadSame ==
  Mounted /\ reading = <<>> =>
    /\ storage = JSONstringify(expenses)
    /\ LoadExpenses(storage) = expenses

\* The number of records of s that fall into the month m.
InMonth(s, m) ==
  Cardinality({i \in DOMAIN s : monthKey(Get(s[i], "date")) = m})

InstallNotice == "Please install jspdf and jspdf-autotable (see README)."

\* A CSV export of an empty store saves nothing and raises its notice, one
\* of a store that holds records saves the header line and a line per
\* record; the store is left as it was.
CsvExportStep ==
  last'.op = "downloadCSV" =>
    /\ expenses' = expenses /\ storage' = storage
    /\ ~exported'.pdf
    /\ Len(Store) = 0 =>
         /\ last'.alert = "No records to export."
         /\ exported'.file = NoFile
    /\ Len(Store) > 0 =>
         /\ last'.alert = NoAlert
         /\ exported'.file.kind = "csv"
         /\ Len(exported'.file.lines) = Len(Store) + 1

\* A monthly report for a month without records raises its notice and
\* neither calls downloadPDF nor saves a file; the store is left as it was.
ReportRefusalStep ==
  last'.op = "generateMonthlyReportPDF" =>
    /\ expenses' = expenses /\ storage' = storage
    /\ InMonth(Store, last'.arg.v) = 0 =>
         /\ last'.alert = "No data for that month"
         /\ ~exported'.pdf
         /\ exported'.file = NoFile

\* The report of the month's records is saved.
ReportSaved ==
  /\ last'.alert = NoAlert
  /\ exported'.file.kind = "pdf"
  /\ Len(exported'.file.lines) = InMonth(Store, last'.arg.v) + 2

\* C17 as claimed: the exports refuse on empty input, and for a non-empty
\* input the file is produced.
C17_ExportsRefuseOrProduce ==
  [][/\ CsvExportStep
     /\ ReportRefusalStep
     /\ last'.op = "generateMonthlyReportPDF"
          /\ InMonth(Store, last'.arg.v) > 0
        => exported'.pdf /\ ReportSaved]_vars

\* C17 amended: the exports refuse on empty input; the CSV export of a
\* non-empty store produces its file; the monthly report of a month that
\* has records calls downloadPDF, which saves the report when jspdf and
\* jspdf-autotable load and otherwise raises a notice and saves nothing.
C17_ExportsRefuse ==
  [][/\ CsvExportStep
     /\ ReportRefusalStep
     /\ last'.op = "generateMonthlyReportPDF"
          /\ InMonth(Store, last'.arg.v) > 0
        => /\ exported'.pdf
           /\ \/ ReportSaved
              \/ /\ last'.alert = InstallNotice
                 /\ exported'.file = NoFile]_vars

\* A monthly report was refused for a month without records, in a store
\* that holds records of other months.
C17_Witness ==
  /\ Mounted
  /\ last.op = "generateMonthlyReportPDF"
  /\ last.alert = "No data for that month"
  /\ ~exported.pdf
  /\ Len(Store) = 3
  /\ InMonth(Store, last.arg.v) = 0

\* A CSV export was refused for the empty store.
C17_WitnessCsv ==
  /\ Mounted
  /\ last.op = "downloadCSV"
  /\ last.alert = "No records to export."
  /\ Store = <<>>

\* Some cache holds a response for the URL.
HasResponse(cs, url) == \E i \in DOMAIN cs : url \in cs[i].urls

C18_WitnessCached ==
  /\ phase = "activated"
  /\ answer.network = "unused"
  /\ answer.from = "/index.html"
  /\ fetching # {}

====
